---- MODULE Spec2Model ----
(***************************************************************************)
(* Model of src/map.py: the AQI response cache (load_cache, save_cache,    *)
(* fetch_aqi_for_location) and the run of main() around it.                *)
(*                                                                         *)
(* Python values (JSON documents) are one-field records named after their  *)
(* type: [dict |-> f] for a dict whose items are the fields of the record  *)
(* f, [str |-> s] for a string, [list |-> q] for a list.  The cache is a   *)
(* function from key strings to such values; "key in cache" is             *)
(* key \in DOMAIN cache.                                                   *)
(***************************************************************************)
EXTENDS Integers, Sequences, FiniteSets, TLC

VARIABLES pc, disk, cache, locations, idx, pending, path, saves, last, written

vars == <<pc, disk, cache, locations, idx, pending, path, saves, last, written>>

(* ------------------------------ bounds --------------------------------- *)

\* longest location list read_locations returns in the model
MaxLocs == 2
\* clock readings lie at and just below the multiples 0..MaxEpoch of the TTL
MaxEpoch == 1

(* --------------------------- Python values ----------------------------- *)

PyDict(f) == [dict |-> f]
PyStr(s) == [str |-> s]
PyList(q) == [list |-> q]

\* the literal {} returned at the end of fetch_aqi_for_location
EmptyDict == PyDict(<<>>)

\* isinstance(v, dict)
IsDict(v) == "dict" \in DOMAIN v

\* k in v, for a dict v
HasKey(v, k) == k \in DOMAIN v.dict

\* v.get(k, default), for a dict v
Get(v, k, default) == IF HasKey(v, k) THEN v.dict[k] ELSE default

\* bool(v), as tested by "if not data" in generate_map
Truthy(v) ==
    IF IsDict(v) THEN DOMAIN v.dict # {}
    ELSE IF "str" \in DOMAIN v THEN v.str # ""
    ELSE Len(v.list) > 0

\* a WAQI data object, reduced to its aqi field
Payload(a) == PyDict([aqi |-> a])

Payloads == {Payload(42), Payload(57)}

\* a new-format cache entry
Record(ts, d) == PyDict([timestamp |-> ts, data |-> d])

(* ------------------------------ constants ------------------------------ *)

CACHE_TTL_SECONDS == 4 * 3600

\* readings of time.time(), around the multiples of the lifetime
Times ==
    {t \in {e * CACHE_TTL_SECONDS + d : e \in 0..MaxEpoch, d \in {-1, 0}} : t >= 0}

\* coordinates in tenths of a degree: <<487, 195>> is (48.7, 19.5)
Coords == {<<487, 195>>, <<481, 171>>}

\* variant of the formatting that drops the fraction, as "{:.0f}" would
FormatFloat_Truncated(x) == ToString(x \div 10)

\* str() of a float with one decimal, as the f-string formats lat and lon
FormatFloat(x) == ToString(x \div 10) \o "." \o ToString(x % 10)

\* key = f"{lat},{lon}"
CacheKey(lat, lon) == FormatFloat(lat) \o "," \o FormatFloat(lon)

(* ------------------------ the remote AQI provider ---------------------- *)

\* parsed JSON bodies of a 200 response
OkBody(d) == PyDict([status |-> "ok", data |-> d])
ErrorBody == PyDict([status |-> "error", data |-> PyStr("Invalid key")])
OkNoDataBody == PyDict([status |-> "ok"])
NonObjectBody == PyList(<<>>)

Bodies == {OkBody(Payload(57))} \cup {ErrorBody, OkNoDataBody, NonObjectBody}

\* what the calls of lines 279-281 raise instead of producing a body
RaisedKinds == {"ConnectionError", "Timeout", "HTTPError", "JSONDecodeError", "KeyboardInterrupt"}

\* result.get("status") == "ok" and "data" in result, for a dict result
ResponseOk(result) ==
    /\ HasKey(result, "status")
    /\ result.dict.status = "ok"
    /\ HasKey(result, "data")

\* One behaviour of the network and of the user during one lookup: kind is
\* "json" when requests.get, raise_for_status and resp.json() all return and
\* body is the parsed document, else the exception raised by one of them;
\* intr says that Ctrl-C arrives during time.sleep(delay).
Nets ==
    {[kind |-> k, body |-> EmptyDict, intr |-> FALSE] : k \in RaisedKinds}
    \cup {[kind |-> "json", body |-> b, intr |-> FALSE] : b \in Bodies}
    \cup {[kind |-> "json", body |-> OkBody(Payload(57)), intr |-> TRUE]}

NoNet == [kind |-> "none", body |-> EmptyDict, intr |-> FALSE]

\* except requests.RequestException
IsRequestException(kind) == kind \in {"ConnectionError", "Timeout", "HTTPError"}

\* except ValueError
IsValueError(kind) == kind = "JSONDecodeError"

(* ----------------------- fetch_aqi_for_location ------------------------ *)

\* variant of the format test that looks for the 'data' field alone
IsNewFormat_DataOnly(entry) ==
    /\ IsDict(entry)
    /\ HasKey(entry, "data")

\* the condition negated at line 260: the entry is in the new format
IsNewFormat(entry) ==
    /\ IsDict(entry)
    /\ HasKey(entry, "timestamp")
    /\ HasKey(entry, "data")

\* variants of the age test: a TTL one second short, a boundary counted as
\* fresh, and the subtraction reversed
IsFresh_Short(entry, now) == now - entry.dict.timestamp < CACHE_TTL_SECONDS - 1

IsFresh_Inclusive(entry, now) == now - entry.dict.timestamp <= CACHE_TTL_SECONDS

IsFresh_Reversed(entry, now) == entry.dict.timestamp - now < CACHE_TTL_SECONDS

\* age < CACHE_TTL_SECONDS, with age = now - entry.get("timestamp", 0)
IsFresh(entry, now) == now - Get(entry, "timestamp", 0) < CACHE_TTL_SECONDS

\* variants of the entry written: without its timestamp, the bare data, and
\* with a timestamp two lifetimes in the past
NewEntry_Unstamped(now, data) == PyDict([data |-> data])

NewEntry_Backdated(now, data) ==
    PyDict([timestamp |-> now - 2 * CACHE_TTL_SECONDS, data |-> data])

NewEntry_OldFormat(now, data) == data

\* {"timestamp": now, "data": data}, the entry written at lines 262 and 284
NewEntry(now, data) == PyDict([timestamp |-> now, data |-> data])

\* variant of the assignment that drops the other entries
Store_Alone(c, key, value) ==
    [k \in {key} |-> value]

\* cache[key] = value
Store(c, key, value) ==
    [k \in DOMAIN c \cup {key} |-> IF k = key THEN value ELSE c[k]]

\* The outcome of a call: the cache afterwards, the returned value (<<v>>, or
\* <<>> when the call raises), the exception that leaves the call, and the
\* externally visible steps in order.
Outcome(c, ret, raised, events) ==
    [cache |-> c, ret |-> ret, raised |-> raised, events |-> events]

\* variant of the migration that returns the old value without storing it
Migrate_NotStored(c, key, now) ==
    Outcome(c, <<c[key]>>, "none", <<"return">>)

\* lines 260-264
Migrate(c, key, now) ==
    LET old_data == c[key]
    IN Outcome(Store(c, key, NewEntry(now, old_data)), <<old_data>>, "none",
               <<"write", "return">>)

\* variant of the fetch that pauses before it stores the record
Refetch_SleepFirst(c, key, now, net) ==
    IF net.kind = "json"
    THEN LET result == net.body
         IN IF ~IsDict(result)
            THEN Outcome(c, <<>>, "AttributeError", <<"request">>)
            ELSE IF ResponseOk(result)
            THEN LET data == result.dict.data
                     c2 == Store(c, key, NewEntry(now, data))
                 IN IF net.intr
                    THEN Outcome(c, <<>>, "KeyboardInterrupt",
                                 <<"request", "sleep">>)
                    ELSE Outcome(c2, <<data>>, "none",
                                 <<"request", "sleep", "write", "return">>)
            ELSE Outcome(c, <<EmptyDict>>, "none", <<"request", "return">>)
    ELSE IF IsRequestException(net.kind) \/ IsValueError(net.kind)
    THEN Outcome(c, <<EmptyDict>>, "none", <<"request", "return">>)
    ELSE Outcome(c, <<>>, net.kind, <<"request">>)

\* lines 275-294
Refetch(c, key, now, net) ==
    IF net.kind = "json"
    THEN LET result == net.body
         IN IF ~IsDict(result)
            THEN Outcome(c, <<>>, "AttributeError", <<"request">>)
            ELSE IF ResponseOk(result)
            THEN LET data == result.dict.data
                     c2 == Store(c, key, NewEntry(now, data))
                 IN IF net.intr
                    THEN Outcome(c2, <<>>, "KeyboardInterrupt",
                                 <<"request", "write", "sleep">>)
                    ELSE Outcome(c2, <<data>>, "none",
                                 <<"request", "write", "sleep", "return">>)
            ELSE Outcome(c, <<EmptyDict>>, "none", <<"request", "return">>)
    ELSE IF IsRequestException(net.kind) \/ IsValueError(net.kind)
    THEN Outcome(c, <<EmptyDict>>, "none", <<"request", "return">>)
    ELSE Outcome(c, <<>>, net.kind, <<"request">>)

\* lines 253-294
FetchAqi(c, lat, lon, now, net) ==
    LET key == CacheKey(lat, lon)
    IN IF key \in DOMAIN c
       THEN LET entry == c[key]
            IN IF ~IsNewFormat(entry)
               THEN Migrate(c, key, now)
               ELSE IF IsFresh(entry, now)
               THEN Outcome(c, <<entry.dict.data>>, "none", <<"return">>)
               ELSE Refetch(c, key, now, net)
       ELSE Refetch(c, key, now, net)

\* number of remote requests among the steps of a call
Requests(events) == Cardinality({i \in 1..Len(events) : events[i] = "request"})

\* lines 364-397 of generate_map: what the loop body raises on the returned
\* data ("if not data: continue", then data.get(...))
Consume(data) ==
    IF Truthy(data) /\ ~IsDict(data) THEN "AttributeError" ELSE "none"

(* ------------------------------ the cache file ------------------------- *)

\* the file at cache_path: kind "json" holds a JSON object, given by its
\* members <<key, value>>; the other kinds hold no document
File(kind, members) == [kind |-> kind, members |-> members]

BadKinds == {"missing", "empty", "truncated", "notjson", "undecodable", "unreadable"}

\* json.dump(cache, f): the members of the object written
Dump(c) == {<<k, c[k]>> : k \in DOMAIN c}

\* variant of the load that keeps only the members that carry a timestamp
Parse_StampedOnly(members) ==
    [k \in {m[1] : m \in {n \in members : IsDict(n[2]) /\ HasKey(n[2], "timestamp")}} |->
        (CHOOSE m \in members : m[1] = k)[2]]

\* json.load(f) of a JSON object: the dict of its members
Parse(members) ==
    [k \in {m[1] : m \in members} |-> (CHOOSE m \in members : m[1] = k)[2]]

\* what open() and json.load() raise on the file (lines 131-132)
LoadRaises(d) ==
    CASE d.kind = "unreadable" -> "PermissionError"
      [] d.kind = "undecodable" -> "UnicodeDecodeError"
      [] d.kind \in {"empty", "truncated", "notjson"} -> "JSONDecodeError"
      [] OTHER -> "none"

\* except (json.JSONDecodeError, PermissionError)
LoadCatches(exc) == exc \in {"JSONDecodeError", "PermissionError"}

\* lines 129-140: the cache returned and the exception that leaves the call
load_cache(d) ==
    IF d.kind = "missing"
    THEN [cache |-> <<>>, raised |-> "none"]
    ELSE LET exc == LoadRaises(d)
         IN IF exc = "none"
            THEN [cache |-> Parse(d.members), raised |-> "none"]
            ELSE IF LoadCatches(exc)
            THEN [cache |-> <<>>, raised |-> "none"]
            ELSE [cache |-> <<>>, raised |-> exc]

\* how the writing of lines 151-156 goes: "ok"; "open" when os.makedirs or
\* open(cache_path, "w") raises OSError; "write" when json.dump raises after
\* open has truncated the file
SaveIO == {"ok", "open", "write"}

\* variant of the save that keeps the members of the old file whose keys are
\* not in the cache
save_cache_Merges(c, d, io) ==
    CASE io = "ok" -> File("json", Dump(c) \cup {m \in d.members : m[1] \notin DOMAIN c})
      [] io = "write" -> File("truncated", {})
      [] OTHER -> d

\* variant of the save that leaves an existing document alone
save_cache_KeepsExisting(c, d, io) ==
    IF d.kind = "json" \/ io # "ok" THEN d ELSE File("json", Dump(c))

\* lines 150-159: the file afterwards; every Exception is logged and dropped
save_cache(c, d, io) ==
    CASE io = "ok" -> File("json", Dump(c))
      [] io = "write" -> File("truncated", {})
      [] OTHER -> d

\* what the try block of lines 151-156 raises when the writing goes as io
SaveRaises(io) == IF io = "ok" THEN "none" ELSE "OSError"

\* variant of the handler that catches only what json.dump raises on a value
\* it cannot serialise
SaveCatches_TypeErrorOnly(exc) == exc = "TypeError"

\* except Exception (line 158): OSError and TypeError are both caught
SaveCatches(exc) == exc \in {"OSError", "TypeError"}

\* the exception that leaves save_cache
save_cache_raised(io) ==
    IF SaveCatches(SaveRaises(io)) THEN "none" ELSE SaveRaises(io)

(* ------------------------------- the run ------------------------------- *)

\* values an earlier run, or an earlier version of the script, left in the file
LegacyValues ==
    { Payload(30),
      PyStr("n/a"),
      PyDict([timestamp |-> 0]),
      PyDict([data |-> Payload(30)]) }

\* new-format entries of an earlier run: one written at the first clock
\* reading of the model, one an hour before it
StoredRecords == {Record(0, Payload(42)), Record(0 - 3600, Payload(42))}

StoredValues == LegacyValues \cup StoredRecords

Keys == {CacheKey(c[1], c[2]) : c \in Coords}

Documents ==
    UNION {[ks -> StoredValues] : ks \in SUBSET Keys}

\* a document of new-format entries in a file that may be written but not
\* read (mode 0200)
WriteOnlyFiles ==
    {File("unreadable", Dump(doc)) : doc \in [Keys -> {Record(0, Payload(42))}]}

Files ==
    {File(k, {}) : k \in BadKinds \ {"unreadable"}}
    \cup {File("json", Dump(doc)) : doc \in Documents}
    \cup WriteOnlyFiles

\* what read_locations can return: (lat, lon) of each row, in order
LocationLists == UNION {[1..n -> Coords] : n \in 0..MaxLocs}

NoLookup ==
    [valid |-> FALSE, lat |-> 0, lon |-> 0, now |-> 0, pre |-> <<>>, net |-> NoNet,
     ret |-> <<>>, raised |-> "none", events |-> <<>>]

Init ==
    /\ pc = "load_cache"
    /\ disk \in Files
    /\ cache = <<>>
    /\ locations = <<>>
    /\ idx = 0
    /\ pending = "none"
    /\ path = "start"
    /\ saves = <<>>
    /\ last = NoLookup
    /\ written = <<>>

\* line 504; an exception of load_cache leaves main before the try block
LoadCache ==
    /\ pc = "load_cache"
    /\ LET r == load_cache(disk)
       IN IF r.raised = "none"
          THEN /\ cache' = r.cache
               /\ pc' = "read_locations"
               /\ UNCHANGED <<pending, path>>
          ELSE /\ pc' = "done"
               /\ pending' = r.raised
               /\ path' = "load_raised"
               /\ UNCHANGED cache
    /\ UNCHANGED <<disk, locations, idx, saves, last, written>>

\* lines 508-511: an empty list returns from inside the try block
ReadLocations ==
    /\ pc = "read_locations"
    /\ \E locs \in LocationLists :
        /\ locations' = locs
        /\ IF locs = <<>>
           THEN pc' = "finally" /\ path' = "no_locations"
           ELSE pc' = "generate_map" /\ UNCHANGED path
    /\ UNCHANGED <<disk, cache, idx, pending, saves, last, written>>

\* one iteration of the loop of lines 359-397; time.time() at line 254 does
\* not go back between two calls of a run
Lookup ==
    /\ pc = "generate_map"
    /\ idx < Len(locations)
    /\ \E now \in {t \in Times : last.valid => t >= last.now}, net \in Nets :
        LET lat == locations[idx + 1][1]
            lon == locations[idx + 1][2]
            r == FetchAqi(cache, lat, lon, now, net)
            asked == Requests(r.events) > 0
            wrote == \E i \in 1..Len(r.events) : r.events[i] = "write"
            key == CacheKey(lat, lon)
            exc == IF r.raised # "none" THEN r.raised ELSE Consume(r.ret[1])
        IN /\ cache' = r.cache
           /\ last' = [valid |-> TRUE, lat |-> lat, lon |-> lon, now |-> now,
                       pre |-> cache, net |-> IF asked THEN net ELSE NoNet,
                       ret |-> r.ret, raised |-> r.raised, events |-> r.events]
           /\ written' = IF wrote THEN Store(written, key, r.cache[key]) ELSE written
           /\ IF exc = "none"
              THEN idx' = idx + 1 /\ UNCHANGED <<pc, pending, path>>
              ELSE /\ pc' = "finally"
                   /\ UNCHANGED idx
                   /\ IF exc = "KeyboardInterrupt"
                      THEN path' = "interrupt" /\ UNCHANGED pending
                      ELSE path' = "exception" /\ pending' = exc
    /\ UNCHANGED <<disk, locations, saves>>

\* variant of the interrupt in which the exception leaves main at once, as
\* it would without the finally block
Interrupt_Unsaved ==
    /\ pc = "generate_map"
    /\ pc' = "done"
    /\ path' = "interrupt"
    /\ pending' = "KeyboardInterrupt"
    /\ UNCHANGED <<disk, cache, locations, idx, saves, last, written>>

\* Ctrl-C between two calls of fetch_aqi_for_location; caught at line 526
Interrupt ==
    /\ pc = "generate_map"
    /\ pc' = "finally"
    /\ path' = "interrupt"
    /\ UNCHANGED <<disk, cache, locations, idx, pending, saves, last, written>>

\* lines 399-442: the map is written; os.makedirs at line 435 is outside the
\* try of lines 438-442, so its OSError leaves generate_map
FinishMap ==
    /\ pc = "generate_map"
    /\ idx = Len(locations)
    /\ pc' = "finally"
    /\ \E mkdir_ok \in BOOLEAN :
        IF mkdir_ok
        THEN path' = "completed" /\ UNCHANGED pending
        ELSE path' = "exception" /\ pending' = "OSError"
    /\ UNCHANGED <<disk, cache, locations, idx, saves, last, written>>

\* lines 529-532; a pending exception is re-raised after the finally block
SaveCache ==
    /\ pc = "finally"
    /\ \E io \in SaveIO :
        /\ disk' = save_cache(cache, disk, io)
        /\ saves' = Append(saves, [cache |-> cache, io |-> io,
                                   before |-> {m[1] : m \in disk.members}])
        /\ pending' = IF save_cache_raised(io) = "none"
                      THEN pending
                      ELSE save_cache_raised(io)
    /\ pc' = "done"
    /\ UNCHANGED <<cache, locations, idx, path, last, written>>

Next ==
    \/ LoadCache
    \/ ReadLocations
    \/ Lookup
    \/ Interrupt
    \/ FinishMap
    \/ SaveCache

Spec == Init /\ [][Next]_vars

(* ------------------------------ properties ----------------------------- *)

\* the terms of the spec, stated on the last lookup of the run

\* a Current record: a dict with both a 'timestamp' and a 'data' field
CurrentFormat(v) == "dict" \in DOMAIN v /\ {"timestamp", "data"} \subseteq DOMAIN v.dict

LastKey == CacheKey(last.lat, last.lon)

LastPresent == LastKey \in DOMAIN last.pre

LastAge == last.now - last.pre[LastKey].dict.timestamp

LastFreshHit ==
    last.valid /\ LastPresent /\ CurrentFormat(last.pre[LastKey]) /\ LastAge < 14400

LastLegacyHit ==
    last.valid /\ LastPresent /\ ~CurrentFormat(last.pre[LastKey])

LastStaleHit ==
    last.valid /\ LastPresent /\ CurrentFormat(last.pre[LastKey]) /\ LastAge >= 14400

LastMiss == last.valid /\ ~LastPresent

\* the remote answered with status "ok" and a data field
LastResponseOk ==
    /\ last.net.kind = "json"
    /\ "dict" \in DOMAIN last.net.body
    /\ {"status", "data"} \subseteq DOMAIN last.net.body.dict
    /\ last.net.body.dict.status = "ok"

\* the remote call failed: an exception of the HTTP client or of the JSON
\* parser, or a body that is not an "ok" answer with data
LastResponseFailed ==
    \/ last.net.kind \in {"ConnectionError", "Timeout", "HTTPError", "JSONDecodeError"}
    \/ last.net.kind = "json" /\ ~LastResponseOk

\* the entry of key k is the same in caches c and d (absent in both, or equal)
SameEntry(c, d, k) ==
    /\ k \in DOMAIN c <=> k \in DOMAIN d
    /\ k \in DOMAIN c => c[k] = d[k]

\* C1: a lookup of a key holding a Current record younger than 14400 s
\* returns exactly the stored data, issues no remote request and leaves the
\* whole cache as it was.
C1_FreshHit ==
    LastFreshHit =>
        /\ last.raised = "none"
        /\ last.ret = <<last.pre[LastKey].dict.data>>
        /\ Requests(last.events) = 0
        /\ cache = last.pre

\* a fresh hit on a record that is 14399 s old
C1_Witness ==
    /\ LastFreshHit
    /\ LastAge = 14399
    /\ last.ret = <<Payload(42)>>
    /\ cache = last.pre

\* C2: a lookup of a key holding a Legacy value V returns V, issues no remote
\* request and leaves {timestamp: now, data: V} at the key; a second lookup of
\* the key at the same clock value, whatever the network would answer, returns
\* V again, changes nothing in the cache and issues no request.
C2_LegacyHit ==
    LastLegacyHit =>
        LET V == last.pre[LastKey]
        IN /\ last.raised = "none"
           /\ last.ret = <<V>>
           /\ Requests(last.events) = 0
           /\ cache = [k \in DOMAIN last.pre |->
                          IF k = LastKey
                          THEN PyDict([timestamp |-> last.now, data |-> V])
                          ELSE last.pre[k]]
           /\ \A net \in Nets :
                LET again == FetchAqi(cache, last.lat, last.lon, last.now, net)
                IN /\ again.raised = "none"
                   /\ again.ret = <<V>>
                   /\ again.cache = cache
                   /\ Requests(again.events) = 0

\* a raw string migrated late in the clock's range
C2_Witness ==
    /\ LastLegacyHit
    /\ last.pre[LastKey] = PyStr("n/a")
    /\ last.now = 14400
    /\ cache[LastKey] = PyDict([timestamp |-> 14400, data |-> PyStr("n/a")])

\* C3: a lookup of a key holding a Current record of age >= 14400 s issues
\* exactly one remote request; when the answer is "ok" with data D the entry
\* becomes {timestamp: now, data: D}, and D is what the lookup returns.
C3_StaleHit ==
    LastStaleHit =>
        /\ Requests(last.events) = 1
        /\ LastResponseOk =>
            /\ cache[LastKey] =
                 PyDict([timestamp |-> last.now, data |-> last.net.body.dict.data])
            /\ last.raised = "none" => last.ret = <<last.net.body.dict.data>>

\* a record exactly 14400 s old is refetched and replaced
C3_Witness ==
    /\ LastStaleHit
    /\ LastAge = 14400
    /\ LastResponseOk
    /\ last.ret = <<Payload(57)>>
    /\ cache[LastKey] = PyDict([timestamp |-> last.now, data |-> Payload(57)])

\* C4: a lookup of an absent key issues exactly one remote request; when the
\* answer is "ok" with data D the lookup returns D and the cache gains, at the
\* key, {timestamp: now, data: D} with now the clock value read at the start.
C4_MissFetched ==
    LastMiss =>
        /\ Requests(last.events) = 1
        /\ LastResponseOk =>
            /\ cache = [k \in DOMAIN last.pre \cup {LastKey} |->
                          IF k = LastKey
                          THEN PyDict([timestamp |-> last.now,
                                       data |-> last.net.body.dict.data])
                          ELSE last.pre[k]]
            /\ last.raised = "none" => last.ret = <<last.net.body.dict.data>>

\* the scenario of the spec: key "48.7,19.5" absent, the remote answers "ok"
\* with a payload
C4_Witness ==
    /\ LastMiss
    /\ LastKey = "48.7,19.5"
    /\ last.net = [kind |-> "json", body |-> OkBody(Payload(57)), intr |-> FALSE]
    /\ last.ret = <<Payload(57)>>
    /\ cache[LastKey].dict.data.dict.aqi = 57

\* C5: when the remote call of a lookup of an absent or stale key fails in any
\* way, the lookup returns {} and the entry of the key is what it was.
C5_FailureReturnsEmpty ==
    (LastMiss \/ LastStaleHit) /\ LastResponseFailed =>
        /\ last.raised = "none"
        /\ last.ret = <<EmptyDict>>
        /\ SameEntry(cache, last.pre, LastKey)

\* the last lookup ended as a successful fetch: it asked the remote and the
\* answer was "ok" with data
LastFetchOk == (LastMiss \/ LastStaleHit) /\ LastResponseOk

\* C6: after a lookup that ends as a fresh hit, a legacy migration or a
\* successful fetch, the entry of the key is a Current record.
C6_CurrentAfterSuccess ==
    LastFreshHit \/ LastLegacyHit \/ LastFetchOk =>
        /\ LastKey \in DOMAIN cache
        /\ CurrentFormat(cache[LastKey])

\* a cache of one Legacy and one Current value, whose Legacy value (a dict
\* with a 'timestamp' but no 'data') has just been migrated
C6_Witness ==
    /\ LastLegacyHit
    /\ last.pre[LastKey] = PyDict([timestamp |-> 0])
    /\ \E k \in DOMAIN last.pre : k # LastKey /\ CurrentFormat(last.pre[k])
    /\ CurrentFormat(cache[LastKey])

\* the timestamp stored at key k of cache c, if c holds a Current record there
StoredTimestamp(c, k) ==
    IF k \in DOMAIN c /\ CurrentFormat(c[k]) THEN <<c[k].dict.timestamp>> ELSE <<>>

C8_SavedExactlyOnce ==
    /\ pc # "done" => saves = <<>>
    /\ pc = "done" /\ path # "load_raised" =>
        /\ path \in {"completed", "no_locations", "interrupt", "exception"}
        /\ Len(saves) = 1
        /\ saves[1].cache = cache
    /\ pc = "done" /\ path = "interrupt" => pending = "none"

\* Ctrl-C during the throttle pause of the second location: the run has
\* ended, the cache with the record just fetched was saved once
C8_Witness ==
    /\ pc = "done"
    /\ path = "interrupt"
    /\ idx = 1
    /\ last.raised = "KeyboardInterrupt"
    /\ last.events = <<"request", "write", "sleep">>
    /\ Len(saves) = 1
    /\ saves[1].cache = cache
    /\ LastKey \in DOMAIN cache /\ cache[LastKey].dict.timestamp = last.now

\* C9: when the run has ended and the final save succeeded, the file holds,
\* for every key written by a fetch or a migration of the run, the record
\* last written for it.
C9_NoLostWork ==
    pc = "done" /\ path # "load_raised" /\ saves[Len(saves)].io = "ok" =>
        /\ disk.kind = "json"
        /\ \A k \in DOMAIN written :
            /\ CurrentFormat(written[k])
            /\ <<k, written[k]>> \in disk.members

\* a run interrupted after one key was migrated and the other fetched, over a
\* file that held a document before
C9_Witness ==
    /\ pc = "done"
    /\ path = "interrupt"
    /\ saves[Len(saves)].io = "ok"
    /\ Cardinality(DOMAIN written) = 2
    /\ \E k \in DOMAIN written : written[k].dict.data = Payload(30)
    /\ \E k \in DOMAIN written : written[k].dict.data = Payload(57)
    /\ \E m \in Files : m.kind = "json" /\ m.members # {} /\ m.members # disk.members
    /\ \A k \in DOMAIN written : <<k, written[k]>> \in disk.members

\* C10: whatever the state of the cache file, load_cache returns an empty
\* cache when it cannot read a document, and never raises.
C10_LoadFailsSoft ==
    /\ path # "load_raised"
    /\ pc = "read_locations" /\ disk.kind \in BadKinds => cache = <<>>

\* the way out of the try block raised nothing that was left uncaught
QuietPath == path \in {"completed", "no_locations", "interrupt"}

\* C11: when the writing of the cache file fails, save_cache does not raise:
\* the run ends as it would have after a successful save, with no exception
\* on the quiet ways out, and with the in-memory cache as it was passed.
C11_SaveFailsSoft ==
    pc = "done" /\ path # "load_raised" /\ saves[Len(saves)].io # "ok" =>
        /\ cache = saves[Len(saves)].cache
        /\ QuietPath => pending = "none"
        /\ ~QuietPath => pending \in {"AttributeError", "OSError"}

\* a completed run with a fetched record whose save failed while writing
C11_Witness ==
    /\ pc = "done"
    /\ path = "completed"
    /\ saves[Len(saves)].io = "write"
    /\ disk.kind = "truncated"
    /\ pending = "none"
    /\ \E k \in DOMAIN cache : cache[k] = PyDict([timestamp |-> 14400, data |-> Payload(57)])

\* the final save of the run succeeded
SavedOk == pc = "done" /\ path # "load_raised" /\ saves[Len(saves)].io = "ok"

LastWrapped ==
    /\ Requests(last.events) = 0
    /\ last.ret = <<last.pre[LastKey]>>
    /\ cache[LastKey] = PyDict([timestamp |-> last.now, data |-> last.pre[LastKey]])

RecordFields(v) ==
    IF "dict" \in DOMAIN v THEN DOMAIN v.dict \cap {"timestamp", "data"} ELSE {}

LastFetchFailed == last.valid /\ Requests(last.events) = 1 /\ LastResponseFailed

\* C15: a location whose remote call fails yields {} and is skipped: the loop
\* has moved past it, in order; no failure of the remote call makes the run
\* leave the loop by an exception; a run that completes has looked up every
\* location.
C15_FailuresNeverAbort ==
    /\ LastFetchFailed =>
        /\ last.raised = "none"
        /\ last.ret = <<EmptyDict>>
        /\ idx >= 1
        /\ locations[idx] = <<last.lat, last.lon>>
    /\ LastFetchFailed /\ pc = "done" /\ path # "interrupt" =>
        /\ idx = Len(locations)
        /\ pending = "none" \/ pending = "OSError"
    /\ pc = "done" /\ path = "completed" => idx = Len(locations)

\* the string Python makes of the pair of floats c, written out digit by digit
KeyText(c) ==
    ToString(c[1] \div 10) \o "." \o ToString(c[1] % 10) \o ","
        \o ToString(c[2] \div 10) \o "." \o ToString(c[2] % 10)

\* C16: once a fetch for (lat, lon) has succeeded in the run, a later lookup
\* that returns for the same (lat, lon), at a clock value less than 14400 s
\* after the timestamp of the record last fetched, finds that record under its
\* key: it returns the fetched data, issues no request and changes nothing.
\* The key a lookup writes under is the text "lat,lon" of its coordinates.
C16_KeyRoundTrip ==
    [][pc = "generate_map" /\ idx < Len(locations) /\ idx' = idx + 1 =>
         LET k == KeyText(locations[idx + 1])
         IN /\ cache' # cache => k \in DOMAIN cache' /\ k \in DOMAIN written'
            /\ k \in DOMAIN written
               /\ written[k].dict.data \in Payloads
               /\ last'.now - written[k].dict.timestamp < 14400
               => /\ Requests(last'.events) = 0
                  /\ last'.ret = <<written[k].dict.data>>
                  /\ cache' = cache
    ]_vars

\* the same location twice in the list: fetched at 0, served from the cache
\* at 14399
C16_Witness ==
    /\ idx = 2
    /\ locations[1] = locations[2]
    /\ LastFreshHit
    /\ last.now = 14399
    /\ LastKey \in DOMAIN written
    /\ written[LastKey] = PyDict([timestamp |-> 0, data |-> Payload(57)])
    /\ last.ret = <<Payload(57)>>
    /\ Requests(last.events) = 0

\* C17: after a successful save the file holds exactly the members of the
\* in-memory cache; a key of the file as it was before the save that is not in
\* the cache is in the file no longer.
C17_WholesaleOverwrite ==
    SavedOk =>
        /\ disk.kind = "json"
        /\ disk.members = {<<k, cache[k]>> : k \in DOMAIN cache}
        /\ \A k \in saves[Len(saves)].before :
              k \notin DOMAIN cache => \A n \in disk.members : n[1] # k

\* the load fell back to an empty cache on a file that could not be read; one
\* location was fetched; the save replaced the two old entries by the new one
C17_Witness ==
    /\ SavedOk
    /\ Cardinality(saves[Len(saves)].before) = 2
    /\ Cardinality(DOMAIN cache) = 1
    /\ Cardinality(disk.members) = 1
    /\ \E k \in saves[Len(saves)].before : k \notin DOMAIN cache

\* the positions of step e among the steps of the last lookup
Steps(e) == {i \in 1..Len(last.events) : last.events[i] = e}

\* C18: a lookup pauses if and only if it fetched successfully; the pause comes
\* after the write of the new record and before the return; fresh hits,
\* migrations and failed fetches do not pause; when the pause is interrupted
\* the fetched record is in the cache.
C18_ThrottleOrdering ==
    last.valid =>
        /\ Steps("sleep") # {} <=> LastFetchOk
        /\ Cardinality(Steps("sleep")) <= 1
        /\ \A s \in Steps("sleep") :
              /\ Steps("write") # {} /\ \A w \in Steps("write") : w < s
              /\ \A r \in Steps("return") : s < r
              /\ LastKey \in DOMAIN cache
              /\ cache[LastKey] =
                    PyDict([timestamp |-> last.now, data |-> last.net.body.dict.data])
        /\ LastFetchOk /\ last.raised = "none" =>
              /\ Steps("return") # {}
              /\ last.ret = <<last.net.body.dict.data>>
        /\ LastFreshHit \/ LastLegacyHit \/ LastFetchFailed => Steps("sleep") = {}

\* an interrupt during the pause after the fetch of an absent key: the record
\* is in the cache and in the file that the exit wrote
C18_Witness ==
    /\ pc = "done"
    /\ path = "interrupt"
    /\ LastMiss
    /\ last.raised = "KeyboardInterrupt"
    /\ last.events = <<"request", "write", "sleep">>
    /\ cache[LastKey] = PyDict([timestamp |-> 14400, data |-> Payload(57)])
    /\ <<LastKey, cache[LastKey]>> \in disk.members

\* C19: a lookup of key K leaves the entry of every other key as it was,
\* removes no key, and adds no key but K, which it adds only when K was absent
\* and the fetch succeeded.
C19_LookupFrame ==
    last.valid =>
        /\ \A k \in DOMAIN last.pre :
              /\ k \in DOMAIN cache
              /\ k # LastKey => cache[k] = last.pre[k]
        /\ DOMAIN cache \ DOMAIN last.pre \subseteq {LastKey}
        /\ DOMAIN cache # DOMAIN last.pre =>
              /\ ~LastPresent
              /\ Requests(last.events) = 1
              /\ LastResponseOk
        /\ ~LastPresent /\ ~LastResponseOk => cache = last.pre

\* a successful fetch of an absent key beside an old entry of the other key:
\* the key set grows by the one key and the old entry is as it was
C19_Witness ==
    /\ last.valid
    /\ LastMiss
    /\ LastResponseOk
    /\ Cardinality(DOMAIN last.pre) = 1
    /\ DOMAIN cache = DOMAIN last.pre \cup {LastKey}
    /\ \E k \in DOMAIN last.pre :
          k # LastKey /\ cache[k] = last.pre[k] /\ cache[k] = PyStr("n/a")
    /\ cache[LastKey] = PyDict([timestamp |-> 14399, data |-> Payload(57)])

====
